---- MODULE Spec2Model ----
(***************************************************************************)
(* AlphaGate client: the signal-to-execution pipeline of app/main.py and   *)
(* app/trader.py.  Requests are handled concurrently: the async handlers   *)
(* run on the event loop and are atomic between their awaits, the blocking *)
(* trader calls run on thread-pool threads and are split at every venue    *)
(* call.  TRADING_ENABLED is the one shared variable.                      *)
(***************************************************************************)
EXTENDS Integers, Sequences, FiniteSets, TLC

(* ------------------------------ bounds --------------------------------- *)

\* positions the venue reports to one fetch_positions call
MaxPositions == 2

\* request slots: the requests in flight at once
Slots == {1, 2}

(* --------------------------- program constants ------------------------- *)

\* stop_after_attempt(3)
STOP_AFTER_ATTEMPT == 3
\* time.time() - timestamp > 60
EXPIRATION == 60
\* Settings.DEFAULT_LEVERAGE
DEFAULT_LEVERAGE == 5
\* Settings.TRADE_ALLOCATION_PERCENT, in percent (0.05)
TRADE_ALLOCATION_PERCENT == 5

(* ------------------------------ inputs --------------------------------- *)

Absent == "<absent>"

Symbols == {"BTC/USDT", "DOGE/USDT"}
Sides == {"buy"}

\* X-Hub-Signature as received, relative to the HMAC-SHA256 of the body
SignatureHeaders == {"absent", "empty", "mismatch", "nonascii", "good"}
\* X-Admin-Secret as received, relative to ALPHAGATE_HMAC_SECRET
AdminHeaders == {"absent", "wrong", "right"}

\* values time.time() may return when a request is evaluated
Times == {100}
\* the "timestamp" field: <<>> when the key is absent
Timestamps == {<<>>, <<0>>, <<39>>, <<40>>}
\* the "dust" field
DustValues == {Absent, "false", "true"}

\* request bodies: what json.loads makes of the raw bytes
NoBody == [parse |-> "unread", dust |-> Absent, ts |-> <<>>,
           symbol |-> Absent, side |-> Absent]
ObjectBodies == [parse : {"object"}, dust : DustValues, ts : Timestamps,
                 symbol : Symbols \cup {Absent}, side : Sides \cup {Absent}]
Bodies == ObjectBodies \cup
          {[NoBody EXCEPT !.parse = p] : p \in {"invalid_json", "not_utf8", "not_object"}}

\* the immutable Settings of the process
AllSettings == [blacklist : SUBSET Symbols, whitelist : SUBSET Symbols,
                dry_run : BOOLEAN, leverage : {DEFAULT_LEVERAGE, 2 * DEFAULT_LEVERAGE}]
\* the settings of tests/test_main.py
TestSettings == {[blacklist |-> {"DOGE/USDT"}, whitelist |-> {}, dry_run |-> FALSE,
                  leverage |-> DEFAULT_LEVERAGE]}

\* failure classes of a venue call
Transient == {"NetworkError", "ExchangeNotAvailable", "RequestTimeout"}
ExcKinds == Transient \cup {"InsufficientFunds", "ExchangeError", "KeyError", "Exception"}

\* what makes emergency_kill_switch raise: every class is handled alike
KillFailures == {"Exception"}
\* what building the venue client may raise: it makes no venue call
ConstructFailures == {"Exception"}

\* ticker['last'] (0 stands for every falsy price) and balance['USDT']['free']
Prices == {0, 50000}
Balances == {0, 1000}

\* positions the venue may report: ccxt gives the size as a magnitude, the
\* direction being the side
Positions == {[symbol |-> "BTC/USDT", side |-> "long", contracts |-> 2],
              [symbol |-> "ETH/USDT", side |-> "short", contracts |-> 1],
              [symbol |-> "DOGE/USDT", side |-> "long", contracts |-> 0]}
\* the venue reports at most one position per symbol
PositionLists == {ps \in UNION {[1..n -> Positions] : n \in 0..MaxPositions} :
                    \A i, j \in DOMAIN ps : i # j => ps[i].symbol # ps[j].symbol}

(* ------------------------------- state --------------------------------- *)

VARIABLES
    TRADING_ENABLED,   \* app.main.TRADING_ENABLED
    settings,          \* get_settings()
    req,               \* the requests in flight, one per slot
    concurrency        \* how many requests the caller keeps in flight

vars == <<TRADING_ENABLED, settings, req, concurrency>>

NoResp == [code |-> 0, body |-> "none"]

\* a free slot; also the initial value of every local of a handler
Idle == [kind |-> "none", pc |-> "idle", hdr |-> "absent", body |-> NoBody,
         evalTime |-> 0, gateRead |-> "unread", killSeen |-> FALSE,
         sigChecked |-> FALSE, resub |-> FALSE,
         symbol |-> Absent, side |-> Absent, placeCalls |-> 0,
         attempt |-> 0, price |-> <<>>, balance |-> <<>>, exc |-> "none",
         ret |-> "none", calls |-> {}, orders |-> <<>>, notes |-> <<>>,
         log |-> <<>>, positions |-> <<>>, idx |-> 0,
         before |-> "unwritten", undone |-> FALSE, late |-> FALSE, stale |-> FALSE,
         resp |-> NoResp]

Busy(r) == req[r].kind # "none"

\* a request takes the lowest free slot
FreeSlot(r) == r <= concurrency /\ ~Busy(r) /\ \A s \in Slots : s < r => Busy(s)

Set(r, q) == req' = [req EXCEPT ![r] = q]

Respond(q, code, body) == [q EXCEPT !.pc = "done", !.resp = [code |-> code, body |-> body]]

GateValue(b) == IF b THEN "enabled" ELSE "disabled"

(* ---------------------------- app/notifier.py -------------------------- *)

\* send_notification never raises: both deliveries are wrapped in try/except
send_notification(q, level) == [q EXCEPT !.notes = Append(@, level)]

(* ---------------------------- app/security.py -------------------------- *)

\* "ok" / "reject" / "raise": hmac.compare_digest raises TypeError on a
\* str with non-ASCII characters
verify_hmac_signature(signature) ==
    CASE signature \in {"absent", "empty"} -> "reject"
      [] signature = "nonascii" -> "raise"
      [] signature = "good" -> "ok"
      [] OTHER -> "reject"

(* ----------------------------- app/trader.py --------------------------- *)

\* mutant: a whitelisted symbol escapes the blacklist
BlacklistedUnlessWhitelisted(symbol) ==
    symbol \in settings.blacklist /\ symbol \notin settings.whitelist

\* line 36
Blacklisted(symbol) == symbol \in settings.blacklist

\* mutant: an empty whitelist admits nothing
NotWhitelistedStrict(symbol) == symbol \notin settings.whitelist

\* line 43
NotWhitelisted(symbol) == settings.whitelist # {} /\ symbol \notin settings.whitelist

\* mutant: insufficient funds are retried like a network failure
ShouldRetryFunds(k) == k \in Transient \cup {"InsufficientFunds"}

\* retry_if_exception_type
ShouldRetry(k) == k \in Transient

\* mutant: one attempt too many
ShouldStopLate(attempt) == attempt > STOP_AFTER_ATTEMPT

\* stop_after_attempt
ShouldStop(attempt) == attempt >= STOP_AFTER_ATTEMPT

\* mutant: the leverage is left out of the notional
AmountUnlevered(usdt_free, current_price) ==
    <<usdt_free * TRADE_ALLOCATION_PERCENT, 100 * current_price>>

\* lines 77-83, as the exact fraction <<numerator, denominator>> (the code
\* computes the same quotient in binary floating point)
Amount(usdt_free, current_price) ==
    <<usdt_free * TRADE_ALLOCATION_PERCENT * settings.leverage, 100 * current_price>>

\* webhook, lines 109-114: what the handler answers when place_order raises
ExceptResponse(k) ==
    IF k = "KeyError" THEN [code |-> 400, body |-> "Invalid payload"]
                      ELSE [code |-> 500, body |-> "Internal server error"]

\* every attempt is one call of place_order: its locals end with it, and the
\* next attempt starts with none bound
EndOfCall(q) == [q EXCEPT !.price = <<>>, !.balance = <<>>, !.stale = FALSE]

\* place_order returns to its caller
Return(q, what) ==
    IF q.kind = "webhook" THEN Respond([EndOfCall(q) EXCEPT !.ret = what], 200, "ok")
                          ELSE [EndOfCall(q) EXCEPT !.ret = what, !.pc = "done"]

\* place_order raises to its caller
Raised(q, k) ==
    IF q.kind = "webhook"
    THEN [EndOfCall(q) EXCEPT !.exc = k, !.pc = "done", !.resp = ExceptResponse(k)]
    ELSE [EndOfCall(q) EXCEPT !.exc = k, !.pc = "done"]

\* the retry decorator, lines 19-23: tenacity raises RetryError when it stops
Retry(q, k) ==
    IF ShouldRetry(k)
    THEN IF ShouldStop(q.attempt) THEN Raised(q, "RetryError")
                                  ELSE [EndOfCall(q) EXCEPT !.pc = "po_attempt", !.exc = k]
    ELSE Raised(q, k)

\* the except clauses of place_order, lines 107-124
Except(q, k) ==
    Retry(IF k \in Transient THEN q ELSE send_notification(q, "error"), k)

\* mutant: the venue is not called once the gate is Disabled
CalledWhileEnabled(q, op) == IF TRADING_ENABLED THEN [q EXCEPT !.calls = @ \cup {op}] ELSE q

Called(q, op) == [q EXCEPT !.calls = @ \cup {op}]

\* a Kill Switch activation in force has gone through the position list
KillSwept == \E s \in Slots : /\ req[s].kind = "kill" /\ req[s].pc \in {"k_notify", "done"}
                              /\ "fetch_positions" \in req[s].calls
                              /\ req[s].exc = "none" /\ ~req[s].undone

\* mutant: the dry run is not honoured
DryRunIgnored == FALSE

\* line 49
DryRun == settings.dry_run

\* one attempt starts, lines 34-56: the filters, the dry run, the venue client
\* (ccxt.bitget(...) builds a local object and calls nothing)
PlaceOrderAttempt(r) ==
    /\ req[r].pc = "po_attempt"
    /\ LET q == [req[r] EXCEPT !.attempt = @ + 1, !.exc = "none",
                               !.body = NoBody, !.evalTime = 0]
       IN  IF Blacklisted(q.symbol) \/ NotWhitelisted(q.symbol)
           THEN Set(r, Return(send_notification(q, "info"), "None"))
           ELSE IF DryRun
                THEN Set(r, Return(q, "dry-run-id"))
                ELSE \/ Set(r, [Called(q, "construct") EXCEPT !.pc = "po_leverage"])
                     \/ \E k \in ConstructFailures :
                            Set(r, Except(Called(q, "construct"), k))
    /\ UNCHANGED <<TRADING_ENABLED, settings, concurrency>>

\* lines 59-63: a failure to set the leverage is logged and ignored
PlaceOrderSetLeverage(r) ==
    /\ req[r].pc = "po_leverage"
    /\ \E ok \in BOOLEAN : Set(r, [Called(req[r], "set_leverage") EXCEPT !.pc = "po_ticker"])
    /\ UNCHANGED <<TRADING_ENABLED, settings, concurrency>>

\* lines 66-69
PlaceOrderFetchTicker(r) ==
    /\ req[r].pc = "po_ticker"
    /\ LET q == Called(req[r], "fetch_ticker")
       IN  \/ \E p \in Prices :
                IF p = 0 THEN Set(r, Except(q, "Exception"))
                         ELSE Set(r, [q EXCEPT !.price = <<p>>, !.pc = "po_balance"])
           \/ \E k \in ExcKinds : Set(r, Except(q, k))
    /\ UNCHANGED <<TRADING_ENABLED, settings, concurrency>>

\* lines 73-74
PlaceOrderFetchBalance(r) ==
    /\ req[r].pc = "po_balance"
    /\ LET q == Called(req[r], "fetch_balance")
       IN  \/ \E b \in Balances : Set(r, [q EXCEPT !.balance = <<b>>, !.pc = "po_order"])
           \/ \E k \in ExcKinds : Set(r, Except(q, k))
    /\ UNCHANGED <<TRADING_ENABLED, settings, concurrency>>

\* mutant: a signal submits its order only when no other signal holds a
\* balance it has not used yet
ReadyToOrderAlone(r) ==
    req[r].pc = "po_order" /\ \A s \in Slots \ {r} : req[s].pc # "po_order"

\* line 95 is reached: nothing is waited for between the balance and the order
ReadyToOrder(r) == req[r].pc = "po_order"

\* r has submitted its order: the balance any other signal fetched and has not
\* used yet dates from before that order
Submitted(r, q) ==
    req' = [s \in Slots |->
              IF s = r THEN q
              ELSE IF req[s].pc = "po_order" THEN [req[s] EXCEPT !.stale = TRUE]
                   ELSE req[s]]

\* lines 77-105
PlaceOrderCreateOrder(r) ==
    /\ ReadyToOrder(r)
    /\ LET order == [symbol |-> req[r].symbol, side |-> req[r].side,
                     amount |-> Amount(req[r].balance[1], req[r].price[1]),
                     reduceOnly |-> FALSE]
           q == [Called(req[r], "create_market_order") EXCEPT !.orders = Append(@, order)]
           placed == [Return(send_notification(q, "success"), "order") EXCEPT
                         !.late = ~TRADING_ENABLED /\ KillSwept,
                         !.stale = req[r].stale]
       IN  \/ Submitted(r, placed)
           \/ \E k \in ExcKinds : Submitted(r, Except(q, k))
    /\ UNCHANGED <<TRADING_ENABLED, settings, concurrency>>

\* tests/test_main.py calls trader.place_order directly
DirectCall(r) ==
    /\ FreeSlot(r)
    /\ \E s \in Symbols, d \in Sides :
         Set(r, [Idle EXCEPT !.kind = "direct", !.pc = "po_attempt", !.symbol = s,
                             !.side = d, !.placeCalls = 1])
    /\ UNCHANGED <<TRADING_ENABLED, settings, concurrency>>

\* lines 178: active_pos
ActivePositions(ps) == SelectSeq(ps, LAMBDA p : p.contracts > 0)

\* mutant: every position is closed by selling
ClosingSideSell(p) == "sell"

\* line 185
ClosingSide(p) == IF p.side = "long" THEN "sell" ELSE "buy"

Logged(q, what, symbol) == [q EXCEPT !.log = Append(@, [what |-> what, symbol |-> symbol])]

\* emergency_kill_switch raises, lines 200-203, and /kill answers 500
KillRaised(q, k) ==
    Respond([send_notification(q, "error") EXCEPT !.exc = k], 500, "Internal Server Error")

\* line 167
KillGetExchange(r) ==
    /\ req[r].pc = "k_exchange"
    /\ LET q == Called(req[r], "construct")
       IN  \/ Set(r, [q EXCEPT !.pc = "k_cancel"])
           \/ \E k \in KillFailures : Set(r, KillRaised(q, k))
    /\ UNCHANGED <<TRADING_ENABLED, settings, concurrency>>

\* lines 170-174
KillCancelOrders(r) ==
    /\ req[r].pc = "k_cancel"
    /\ LET q == [Called(req[r], "cancel_all_orders") EXCEPT !.pc = "k_positions"]
       IN  \/ Set(r, Logged(q, "cancelled", Absent))
           \/ Set(r, Logged(q, "cancel_failed", Absent))
    /\ UNCHANGED <<TRADING_ENABLED, settings, concurrency>>

\* lines 177-181
KillFetchPositions(r) ==
    /\ req[r].pc = "k_positions"
    /\ LET q == Called(req[r], "fetch_positions")
       IN  \/ \E ps \in PositionLists :
                LET p == [q EXCEPT !.positions = ps]
                IN  IF ActivePositions(ps) = <<>>
                    THEN Set(r, [Logged(p, "no_positions", Absent) EXCEPT !.pc = "k_notify"])
                    ELSE Set(r, [p EXCEPT !.idx = 1, !.pc = "k_close"])
           \/ \E k \in KillFailures : Set(r, KillRaised(q, k))
    /\ UNCHANGED <<TRADING_ENABLED, settings, concurrency>>

\* lines 183-193: one iteration of the loop
KillClosePosition(r) ==
    /\ req[r].pc = "k_close"
    /\ LET active_pos == ActivePositions(req[r].positions)
           p == active_pos[req[r].idx]
           order == [symbol |-> p.symbol, side |-> ClosingSide(p),
                     amount |-> <<p.contracts, 1>>, reduceOnly |-> TRUE]
           q == [Called(req[r], "create_market_order") EXCEPT
                    !.orders = Append(@, order),
                    !.idx = @ + 1,
                    !.pc = IF req[r].idx = Len(active_pos) THEN "k_notify" ELSE "k_close"]
       IN  \/ Set(r, Logged(q, "closed", p.symbol))
           \/ Set(r, Logged(q, "close_failed", p.symbol))
    /\ UNCHANGED <<TRADING_ENABLED, settings, concurrency>>

\* trader lines 195-198, then main lines 136-139
KillNotify(r) ==
    /\ req[r].pc = "k_notify"
    /\ Set(r, Respond([send_notification(req[r], "error") EXCEPT !.positions = <<>>, !.idx = 0],
                      200, "KILL_SWITCH_EXECUTED"))
    /\ UNCHANGED <<TRADING_ENABLED, settings, concurrency>>

(* ------------------------------ app/main.py ---------------------------- *)

\* mutant: any secret that is present is accepted
verify_admin_any(secret) == secret # "absent"

\* lines 33-34
verify_admin_access(secret) == secret = "right"

\* the endpoints behind Depends(verify_admin_access), lines 116-141
AdminEndpoints == {"status", "report", "kill", "resume"}

\* mutant: the gate is never consulted
GateNeverClosed == FALSE

\* mutant: the test is inverted
GateInverted == TRADING_ENABLED

\* line 71: if not TRADING_ENABLED
GateClosed == ~TRADING_ENABLED

\* mutant: without "global TRADING_ENABLED" the assignment binds a local
KillGateUnwritten == TRADING_ENABLED

\* mutant: /kill toggles the gate
KillGateToggled == ~TRADING_ENABLED

\* line 133: the value /kill writes to the gate
KillGateValue == FALSE

\* line 145: the value /resume writes to the gate
ResumeGateValue == TRUE

\* Python truthiness of data.get("dust") and of data.get("timestamp")
Truthy(v) == v \notin {Absent, "false"}
TruthyTs(ts) == ts # <<>> /\ ts[1] # 0

\* line 93
Expired(ts, now) == TruthyTs(ts) /\ now - ts[1] > EXPIRATION

\* a request arrives: the headers are known, the body is read later
Arrive(r) ==
    /\ FreeSlot(r)
    /\ \/ \E h \in SignatureHeaders :
            Set(r, [Idle EXCEPT !.kind = "webhook", !.pc = "w_gate", !.hdr = h])
       \/ \E k \in AdminEndpoints : \E h \in AdminHeaders :
            Set(r, [Idle EXCEPT !.kind = k, !.pc = "a_auth", !.hdr = h])
    /\ UNCHANGED <<TRADING_ENABLED, settings, concurrency>>

\* the sender of a validly signed signal that was ignored sends it again
Resubmit(r) ==
    /\ req[r].kind = "webhook" /\ req[r].pc = "done"
    /\ req[r].resp.body = "ignored" /\ req[r].hdr = "good"
    /\ Set(r, [Idle EXCEPT !.kind = "webhook", !.pc = "w_gate", !.hdr = req[r].hdr,
                           !.resub = TRUE])
    /\ UNCHANGED <<TRADING_ENABLED, settings, concurrency>>

\* the response has been sent
Retire(r) ==
    /\ req[r].pc = "done"
    /\ Set(r, Idle)
    /\ UNCHANGED <<TRADING_ENABLED, settings, concurrency>>

\* a Kill Switch has written the gate and no Resume has written it since
KillInForce == \E s \in Slots : req[s].kind = "kill" /\ req[s].before # "unwritten"
                                /\ ~req[s].undone

\* webhook, lines 71-73
WebhookGate(r) ==
    /\ req[r].kind = "webhook" /\ req[r].pc = "w_gate"
    /\ LET q == [req[r] EXCEPT !.gateRead = GateValue(TRADING_ENABLED),
                               !.killSeen = KillInForce]
       IN  IF GateClosed
           THEN Set(r, Respond(q, 200, "ignored"))
           ELSE Set(r, [q EXCEPT !.pc = "w_body"])
    /\ UNCHANGED <<TRADING_ENABLED, settings, concurrency>>

\* a well-formed, fresh, non-heartbeat signal: what its sender resubmits
Fresh(ts, now) == ts = <<>> \/ now - ts[1] <= EXPIRATION
ValidSignals(now) == {b \in ObjectBodies : /\ b.dust # "true"
                                           /\ b.symbol # Absent /\ b.side # Absent
                                           /\ Fresh(b.ts, now)}

\* mutant: the staleness check runs before the heartbeat check
IntakeStaleFirst(q, b, now) ==
    LET v == verify_hmac_signature(q.hdr)
        p == [q EXCEPT !.sigChecked = TRUE]
        d == [p EXCEPT !.body = b, !.evalTime = now]
    IN  CASE v = "raise" -> Respond(p, 500, "Internal Server Error")
          [] v = "reject" -> Respond(p, 200, "")
          [] b.parse = "invalid_json" -> Respond(d, 200, "")
          [] b.parse \in {"not_utf8", "not_object"} -> Respond(d, 500, "Internal Server Error")
          [] Expired(b.ts, now) -> Respond(d, 200, "")
          [] Truthy(b.dust) -> Respond(d, 200, "ok")
          [] b.symbol = Absent \/ b.side = Absent -> Respond(d, 400, "Invalid payload")
          [] OTHER -> [d EXCEPT !.pc = "po_attempt", !.symbol = b.symbol, !.side = b.side,
                                !.placeCalls = @ + 1]

\* webhook, lines 76-106, up to the hand-over to the thread pool
Intake(q, b, now) ==
    LET v == verify_hmac_signature(q.hdr)
        p == [q EXCEPT !.sigChecked = TRUE]
        d == [p EXCEPT !.body = b, !.evalTime = now]
    IN  CASE v = "raise" -> Respond(p, 500, "Internal Server Error")
          [] v = "reject" -> Respond(p, 200, "")
          [] b.parse = "invalid_json" -> Respond(d, 200, "")
          [] b.parse \in {"not_utf8", "not_object"} -> Respond(d, 500, "Internal Server Error")
          [] Truthy(b.dust) -> Respond(d, 200, "ok")
          [] Expired(b.ts, now) -> Respond(d, 200, "")
          [] b.symbol = Absent \/ b.side = Absent -> Respond(d, 400, "Invalid payload")
          [] OTHER -> [d EXCEPT !.pc = "po_attempt", !.symbol = b.symbol, !.side = b.side,
                                !.placeCalls = @ + 1]

WebhookIntake(r) ==
    /\ req[r].kind = "webhook" /\ req[r].pc = "w_body"
    /\ \E now \in Times :
         \E b \in IF req[r].resub THEN ValidSignals(now) ELSE Bodies :
            Set(r, Intake(req[r], b, now))
    /\ UNCHANGED <<TRADING_ENABLED, settings, concurrency>>

\* the Depends(verify_admin_access) of the admin endpoints
AdminAuth(r) ==
    /\ req[r].pc = "a_auth"
    /\ IF verify_admin_access(req[r].hdr)
       THEN Set(r, [req[r] EXCEPT !.pc = CASE req[r].kind = "kill" -> "k_write"
                                          [] req[r].kind = "resume" -> "r_write"
                                          [] req[r].kind = "status" -> "s_run"
                                          [] OTHER -> "p_run"])
       ELSE Set(r, Respond(req[r], 401, "Unauthorized"))
    /\ UNCHANGED <<TRADING_ENABLED, settings, concurrency>>

\* the venue calls a read-only endpoint makes, in order
StatusCalls == <<"construct", "fetch_balance", "fetch_positions">>
ReportCalls == <<"construct", "fetch_my_trades">>

\* the calls made when the n-th one is the last
Prefix(ops, n) == {ops[i] : i \in 1..n}

\* get_system_status and trader.get_status (trader.py lines 126-161): every
\* failure is caught and reported in a 200 answer; the calls touch nothing
\* the other requests read
GetStatus(r) ==
    /\ req[r].kind = "status" /\ req[r].pc = "s_run"
    /\ \/ Set(r, Respond([req[r] EXCEPT !.calls = Prefix(StatusCalls, Len(StatusCalls))],
                          200, "online"))
       \/ \E n \in DOMAIN StatusCalls :
            Set(r, Respond([req[r] EXCEPT !.calls = Prefix(StatusCalls, n)], 200, "error"))
    /\ UNCHANGED <<TRADING_ENABLED, settings, concurrency>>

\* get_performance_report and trader.generate_report (trader.py lines 205-223)
GetReport(r) ==
    /\ req[r].kind = "report" /\ req[r].pc = "p_run"
    /\ \/ Set(r, Respond([req[r] EXCEPT !.calls = Prefix(ReportCalls, Len(ReportCalls))],
                          200, "report"))
       \/ \E n \in DOMAIN ReportCalls :
            Set(r, Respond([req[r] EXCEPT !.calls = Prefix(ReportCalls, n)], 200, "error"))
    /\ UNCHANGED <<TRADING_ENABLED, settings, concurrency>>

\* the other requests learn that a later write replaced theirs
Overwrite(r, q, by) ==
    req' = [s \in Slots |->
              IF s = r THEN q
              ELSE IF req[s].kind # by /\ req[s].before # "unwritten"
                   THEN [req[s] EXCEPT !.undone = TRUE]
                   ELSE req[s]]

\* execute_kill_switch, line 133
KillDisable(r) ==
    /\ req[r].kind = "kill" /\ req[r].pc = "k_write"
    /\ TRADING_ENABLED' = KillGateValue
    /\ Overwrite(r, [req[r] EXCEPT !.pc = "k_exchange",
                                   !.before = GateValue(TRADING_ENABLED)], "kill")
    /\ UNCHANGED <<settings, concurrency>>

\* resume_trading, lines 145-147
ResumeWrite(r) ==
    /\ req[r].kind = "resume" /\ req[r].pc = "r_write"
    /\ TRADING_ENABLED' = ResumeGateValue
    /\ Overwrite(r, Respond([req[r] EXCEPT !.before = GateValue(TRADING_ENABLED)],
                            200, "Trading Resumed"), "resume")
    /\ UNCHANGED <<settings, concurrency>>

(* ---------------------------- specifications --------------------------- *)

\* the HTTP service under concurrent requests, with the settings of the tests
Init ==
    /\ TRADING_ENABLED = TRUE
    /\ settings \in TestSettings
    /\ req = [r \in Slots |-> Idle]
    /\ concurrency = 2

Next ==
    \E r \in Slots :
        \/ Arrive(r) \/ Resubmit(r) \/ Retire(r)
        \/ WebhookGate(r) \/ WebhookIntake(r)
        \/ PlaceOrderAttempt(r) \/ PlaceOrderSetLeverage(r)
        \/ PlaceOrderFetchTicker(r) \/ PlaceOrderFetchBalance(r) \/ PlaceOrderCreateOrder(r)
        \/ AdminAuth(r) \/ KillDisable(r) \/ ResumeWrite(r)
        \/ GetStatus(r) \/ GetReport(r)
        \/ KillGetExchange(r) \/ KillCancelOrders(r) \/ KillFetchPositions(r)
        \/ KillClosePosition(r) \/ KillNotify(r)

Spec == Init /\ [][Next]_vars

\* trader.place_order called by one caller at a time, under every Settings
InitOrder ==
    /\ TRADING_ENABLED = TRUE
    /\ settings \in AllSettings
    /\ req = [r \in Slots |-> Idle]
    /\ concurrency = 1

NextOrder ==
    \E r \in Slots :
        \/ DirectCall(r) \/ Retire(r)
        \/ PlaceOrderAttempt(r) \/ PlaceOrderSetLeverage(r)
        \/ PlaceOrderFetchTicker(r) \/ PlaceOrderFetchBalance(r) \/ PlaceOrderCreateOrder(r)

SpecOrder == InitOrder /\ [][NextOrder]_vars

(* -------------------------------- claims ------------------------------- *)

Webhook(r) == req[r].kind = "webhook"
Kill(r) == req[r].kind = "kill"
Resume(r) == req[r].kind = "resume"
Done(r) == req[r].pc = "done"
Wrote(r) == req[r].before # "unwritten"
Ok == [code |-> 200, body |-> "ok"]
Silent == [code |-> 200, body |-> ""]
Ignored == [code |-> 200, body |-> "ignored"]
NoVenue(r) == req[r].calls = {} /\ req[r].orders = <<>>

\* C1: a Kill Switch activation has written Disabled to the gate before its
\* first venue operation, the gate is still Disabled after every venue
\* operation and after the activation returned or raised unless a Resume wrote
\* it since, and a webhook that read the gate while such an activation was in
\* force is answered 'ignored'.
C1_KillDisablesGateFirst ==
    /\ \A r \in Slots :
         Kill(r) /\ (req[r].calls # {} \/ req[r].resp.code \in {200, 500})
            => Wrote(r) /\ (~req[r].undone => ~TRADING_ENABLED)
    /\ \A r \in Slots :
         Webhook(r) /\ req[r].killSeen => Done(r) /\ req[r].resp = Ignored

\* C1 witness: the activation raised, the gate is Disabled, and a webhook that
\* arrived during the activation was ignored
C1_Witness ==
    \E r, s \in Slots :
        /\ Kill(r) /\ Done(r) /\ req[r].resp.code = 500 /\ ~req[r].undone
        /\ ~TRADING_ENABLED
        /\ Webhook(s) /\ req[s].killSeen /\ req[s].resp = Ignored

\* C2: a webhook whose read of the gate follows a Kill Switch's write, with no
\* Resume write in between, reads Disabled; and a webhook that read Disabled
\* is answered 'ignored' without verifying the signature, reading the body,
\* calling the venue or notifying.
C2_ReadAfterKillIsIgnored ==
    \A r \in Slots :
        Webhook(r) =>
            /\ req[r].killSeen => req[r].gateRead = "disabled"
            /\ req[r].gateRead = "disabled" =>
                 /\ Done(r) /\ req[r].resp = Ignored
                 /\ ~req[r].sigChecked /\ req[r].body = NoBody
                 /\ req[r].placeCalls = 0 /\ NoVenue(r) /\ req[r].notes = <<>>

\* C2 witness: a validly signed webhook is ignored while the Kill Switch that
\* disabled the gate is still closing positions
C2_Witness ==
    \E r, s \in Slots :
        /\ Kill(r) /\ req[r].pc = "k_close"
        /\ Webhook(s) /\ req[s].hdr = "good" /\ req[s].killSeen /\ req[s].resp = Ignored

\* C3, as stated: a resubmitted valid signal that reads the gate Enabled is
\* handed to place_order once and answered with status ok.
C3_AsStated ==
    \A r \in Slots :
        Webhook(r) /\ req[r].resub /\ req[r].gateRead = "enabled" /\ Done(r)
            => req[r].placeCalls = 1 /\ req[r].resp = Ok

\* C3, amended: a resubmitted valid signal that reads the gate Enabled is
\* handed to place_order exactly once; it is answered with status ok when
\* place_order returns and with an error status when place_order raises.
C3_ResubmittedIsExecutedOnce ==
    \A r \in Slots :
        Webhook(r) /\ req[r].resub /\ req[r].gateRead = "enabled" /\ req[r].pc # "w_body"
            => /\ req[r].placeCalls = 1
               /\ Done(r) => \/ req[r].exc = "none" /\ req[r].resp = Ok
                             \/ req[r].exc # "none" /\ req[r].resp.code \in {400, 500}

\* C3 witness: Kill, the signal ignored, Resume, the signal resubmitted and
\* its order placed
C3_Witness ==
    \E r, s \in Slots :
        /\ Resume(r) /\ Done(r) /\ req[r].before = "disabled" /\ ~req[r].undone
        /\ Webhook(s) /\ req[s].resub /\ Done(s) /\ req[s].resp = Ok
        /\ req[s].ret = "order" /\ req[s].placeCalls = 1

\* C4, as stated: every Kill Switch activation completes without error and
\* leaves the gate Disabled, every Resume succeeds and leaves it Enabled.
C4_AsStated ==
    \A r \in Slots :
        /\ Kill(r) /\ Wrote(r) /\ Done(r)
             => req[r].resp.code = 200 /\ (~req[r].undone => ~TRADING_ENABLED)
        /\ Resume(r) /\ Wrote(r)
             => req[r].resp.code = 200 /\ (~req[r].undone => TRADING_ENABLED)

\* C4, amended: whatever the gate was before, a Kill Switch activation leaves
\* it Disabled and a Resume leaves it Enabled (until the next opposite write);
\* Resume always succeeds; an activation fails only when building the venue
\* client or fetching the positions fails, never because of the gate.
C4_GateWritesIdempotent ==
    \A r \in Slots :
        /\ Kill(r) /\ Wrote(r)
             => /\ ~req[r].undone => ~TRADING_ENABLED
                /\ Done(r) => \/ req[r].resp.code = 200 /\ req[r].exc = "none"
                              \/ /\ req[r].resp.code = 500 /\ req[r].exc \in KillFailures
                                 /\ req[r].calls \in {{"construct"},
                                        {"construct", "cancel_all_orders", "fetch_positions"}}
        /\ Resume(r) /\ Wrote(r)
             => /\ Done(r) /\ req[r].resp = [code |-> 200, body |-> "Trading Resumed"]
                /\ ~req[r].undone => TRADING_ENABLED

\* C4 witness: an activation that found the gate already Disabled completed,
\* and so did a Resume that found it already Enabled
C4_Witness ==
    \E r, s \in Slots :
        /\ Kill(r) /\ req[r].before = "disabled" /\ Done(r) /\ req[r].resp.code = 200
        /\ ~req[r].undone /\ ~TRADING_ENABLED
        /\ Resume(s) /\ req[s].before = "enabled" /\ Done(s) /\ req[s].resp.code = 200

\* C5, as stated: a webhook whose signature is absent, empty or a well-formed
\* digest that does not match is answered 200 with an empty body, and it calls
\* neither the venue nor the notifier, whatever the gate is.  (A signature
\* that is not ASCII text is the case of C19.)
C5_AsStated ==
    \A r \in Slots :
        Webhook(r) /\ req[r].hdr \in {"absent", "empty", "mismatch"} /\ Done(r)
            => req[r].resp = Silent /\ NoVenue(r) /\ req[r].notes = <<>>

\* C6: a validly signed payload with the heartbeat marker set, read while the
\* gate is Enabled, is answered 200 {"status": "ok"} and reaches neither
\* place_order nor the venue, whatever its timestamp, symbol and side.
C6_HeartbeatIsNoOp ==
    \A r \in Slots :
        /\ Webhook(r) /\ req[r].gateRead = "enabled" /\ req[r].hdr = "good"
        /\ req[r].body.parse = "object" /\ req[r].body.dust = "true"
        => Done(r) /\ req[r].resp = Ok /\ req[r].placeCalls = 0 /\ NoVenue(r)

\* C6 witness: a heartbeat with a stale timestamp and no symbol
C6_Witness ==
    \E r \in Slots :
        /\ Webhook(r) /\ Done(r) /\ req[r].resp = Ok
        /\ req[r].body.dust = "true" /\ req[r].body.ts = <<39>>
        /\ req[r].body.symbol = Absent

\* C7, as stated: a validly signed, parseable, non-heartbeat payload read while
\* the gate is Enabled whose timestamp is more than 60 seconds older than the
\* evaluation time is answered 200 with an empty body and is not handed to
\* order execution.
C7_AsStated ==
    \A r \in Slots :
        /\ Webhook(r) /\ req[r].gateRead = "enabled" /\ req[r].hdr = "good"
        /\ req[r].body.parse = "object" /\ req[r].body.dust # "true"
        /\ req[r].body.ts # <<>> /\ req[r].evalTime - req[r].body.ts[1] > 60
        => Done(r) /\ req[r].resp = Silent /\ req[r].placeCalls = 0 /\ NoVenue(r)

\* the rule of the Symbol Filter
Admit(symbol) ==
    symbol \notin settings.blacklist
    /\ (settings.whitelist = {} \/ symbol \in settings.whitelist)

\* C8: place_order on a blacklisted symbol returns None on its first attempt
\* without raising, having emitted one notification and made no venue call,
\* in live and in dry-run mode and whatever the whitelist is.
C8_BlacklistedNeverExecuted ==
    \A r \in Slots :
        req[r].attempt >= 1 /\ req[r].symbol \in settings.blacklist
            => /\ Done(r) /\ req[r].attempt = 1
               /\ req[r].ret = "None" /\ req[r].exc = "none"
               /\ NoVenue(r) /\ req[r].notes = <<"info">>

\* C8 witness: a blacklisted symbol that is also whitelisted, in dry-run mode
C8_Witness ==
    \E r \in Slots :
        /\ Done(r) /\ req[r].ret = "None" /\ req[r].notes = <<"info">>
        /\ req[r].symbol \in settings.blacklist \cap settings.whitelist
        /\ settings.dry_run

\* C9: place_order goes on to the dry run or to the venue exactly when the
\* symbol is not blacklisted and the whitelist is empty or holds it; every
\* other symbol is rejected with the no-op result.
C9_AdmissionRule ==
    \A r \in Slots :
        req[r].attempt >= 1 =>
            /\ ~Admit(req[r].symbol) <=> Done(r) /\ req[r].ret = "None" /\ NoVenue(r)
            /\ Admit(req[r].symbol) =>
                 IF settings.dry_run THEN Done(r) /\ req[r].ret = "dry-run-id"
                                     ELSE "construct" \in req[r].calls

\* C9 witness: with a non-empty whitelist, a symbol outside it that is not
\* blacklisted is rejected
C9_Witness ==
    \E r \in Slots :
        /\ settings.whitelist # {} /\ req[r].symbol \notin settings.whitelist
        /\ req[r].symbol \notin settings.blacklist /\ req[r].symbol # Absent
        /\ Done(r) /\ req[r].ret = "None"

\* C10: place_order makes at most 3 attempts; another attempt is pending only
\* after a transient failure of one of the first two; a failure that is
\* surfaced is non-transient, or is the third transient one.
C10_AtMostThreeAttempts ==
    \A r \in Slots :
        /\ req[r].attempt <= 3
        /\ req[r].pc = "po_attempt" /\ req[r].attempt >= 1
             => req[r].exc \in Transient /\ req[r].attempt < 3
        /\ Done(r) /\ req[r].exc = "RetryError" => req[r].attempt = 3
        /\ Done(r) /\ req[r].exc \notin {"none", "RetryError"}
             => req[r].exc \notin Transient
        /\ Done(r) /\ req[r].ret = "order" => req[r].exc = "none"

\* C10 witness: two transient failures, then the order is placed on the third
\* attempt
C10_Witness ==
    \E r \in Slots :
        Done(r) /\ req[r].ret = "order" /\ req[r].attempt = 3 /\ Len(req[r].orders) >= 1

\* the failure classes that are never retried
NonTransient == {"InsufficientFunds", "ExchangeError"}

\* C11: when an attempt of a signal's order execution fails with insufficient
\* funds or a venue-side rejection, on whichever attempt, place_order is over
\* (no further attempt), exactly one critical notification and no other has
\* been emitted for the signal, and the webhook answers 500.
C11_NonTransientSurfacesOnce ==
    \A r \in Slots :
        Webhook(r) /\ req[r].exc \in NonTransient
            => /\ Done(r) /\ req[r].ret = "none"
               /\ req[r].notes = <<"error">>
               /\ req[r].resp = [code |-> 500, body |-> "Internal server error"]

\* C11 witness: the first attempt failed transiently, the second with
\* insufficient funds when the order was submitted
C11_Witness ==
    \E r \in Slots :
        /\ Webhook(r) /\ req[r].exc = "InsufficientFunds" /\ req[r].attempt = 2
        /\ Len(req[r].orders) = 1 /\ req[r].resp.code = 500

\* C12, as stated: an attempt that fetched no price, a zero price or a zero
\* free balance does not reach create_market_order, so every order a signal
\* submits has a quantity greater than 0.
C12_AsStated ==
    \A r \in Slots :
        Webhook(r) =>
            \A i \in DOMAIN req[r].orders :
                req[r].orders[i].amount[1] > 0 /\ req[r].orders[i].amount[2] > 0

\* the requests that run place_order
Signal(r) == req[r].kind \in {"webhook", "direct"}

\* the attempt of r has bound neither price nor balance yet
Unbound(r) == req[r].price = <<>> /\ req[r].balance = <<>>

\* q is the quotient (usdt_free * allocation * leverage) / current_price,
\* the allocation being TRADE_ALLOCATION_PERCENT / 100
IsQuantity(q, usdt_free, current_price) ==
    /\ q[2] # 0
    /\ q[1] = (usdt_free * TRADE_ALLOCATION_PERCENT) * settings.leverage
    /\ q[2] = current_price * 100

\* C13: an attempt starts with no price and no balance bound and binds the
\* price before the balance, so what it holds when it submits the order was
\* fetched by that attempt; and the order it submits carries the symbol and
\* side of the signal and the quantity balance * allocation * leverage / price
\* of those two values.
C13_QuantityFromFreshValues ==
    /\ [](\A r \in Slots :
            /\ req[r].pc \in {"po_attempt", "po_leverage", "po_ticker", "done"} => Unbound(r)
            /\ req[r].pc = "po_balance" => req[r].price # <<>> /\ req[r].balance = <<>>
            /\ req[r].pc = "po_order" => req[r].price # <<>> /\ req[r].balance # <<>>)
    /\ [][\A r \in Slots :
            Signal(r) /\ Len(req'[r].orders) > Len(req[r].orders) =>
                LET o == req'[r].orders[Len(req'[r].orders)]
                IN  /\ req[r].pc = "po_order"
                    /\ Len(req'[r].orders) = Len(req[r].orders) + 1
                    /\ o.symbol = req[r].symbol /\ o.side = req[r].side
                    /\ IsQuantity(o.amount, req[r].balance[1], req[r].price[1])]_vars

\* C13 witness: balance 1000, allocation 0.05, leverage 10 and price 50000
\* give the quantity 0.01, on an attempt that followed a failed one
C13_Witness ==
    \E r \in Slots :
        /\ Signal(r) /\ req[r].ret = "order" /\ req[r].attempt = 2
        /\ settings.leverage = 10
        /\ LET o == req[r].orders[Len(req[r].orders)]
           IN  o.amount[2] = 100 * 50000 /\ o.amount[1] * 100 = o.amount[2]

\* C14: in dry-run mode, place_order on an admitted symbol returns the
\* synthetic result on its first attempt, without raising, and has built no
\* venue client, made no venue call and submitted no order.
C14_DryRunNeverContactsVenue ==
    \A r \in Slots :
        Signal(r) /\ settings.dry_run =>
            /\ NoVenue(r) /\ req[r].attempt <= 1 /\ req[r].exc = "none"
            /\ req[r].attempt = 1 /\ Admit(req[r].symbol)
                 => Done(r) /\ req[r].ret = "dry-run-id" /\ req[r].notes = <<>>

\* C14 witness: a dry run of a whitelisted symbol
C14_Witness ==
    \E r \in Slots :
        /\ settings.dry_run /\ req[r].symbol \in settings.whitelist
        /\ Done(r) /\ req[r].ret = "dry-run-id" /\ req[r].calls = {}

\* the orders of r for the symbol of p
OrdersFor(r, p) == {j \in DOMAIN req[r].orders : req[r].orders[j].symbol = p.symbol}

\* the log entries of r for the symbol of p
LogFor(r, p) == {j \in DOMAIN req[r].log : req[r].log[j].symbol = p.symbol}

\* C15: when a Kill Switch activation that obtained the position list has
\* gone through it, every position of nonzero size has exactly one order, a
\* reduce-only one for its full size in the opposite direction, and exactly
\* one log entry telling whether that order went through; a position of size
\* zero has no order; and this is so whatever the cancellation and the other
\* closes did.
C15_EveryOpenPositionClosedOnce ==
    \A r \in Slots :
        Kill(r) /\ req[r].pc = "k_notify" /\ "fetch_positions" \in req[r].calls =>
            LET ps == req[r].positions
            IN  /\ req[r].log[1].what \in {"cancelled", "cancel_failed"}
                /\ Len(req[r].orders) = Cardinality({i \in DOMAIN ps : ps[i].contracts # 0})
                /\ \A i \in DOMAIN ps :
                     IF ps[i].contracts = 0
                     THEN OrdersFor(r, ps[i]) = {}
                     ELSE /\ \E j \in DOMAIN req[r].orders :
                               /\ OrdersFor(r, ps[i]) = {j}
                               /\ req[r].orders[j].reduceOnly
                               /\ req[r].orders[j].amount = <<ps[i].contracts, 1>>
                               /\ ps[i].side = "long" => req[r].orders[j].side = "sell"
                               /\ ps[i].side = "short" => req[r].orders[j].side = "buy"
                          /\ \E j \in DOMAIN req[r].log :
                               /\ LogFor(r, ps[i]) = {j}
                               /\ req[r].log[j].what \in {"closed", "close_failed"}

\* C15 witness: the cancellation failed, the close of the long position
\* failed, and the short position after it was closed all the same
C15_Witness ==
    \E r \in Slots :
        /\ Kill(r) /\ req[r].pc = "k_notify" /\ Len(req[r].positions) = 2
        /\ req[r].positions[1].side = "long" /\ req[r].positions[2].side = "short"
        /\ req[r].log = <<[what |-> "cancel_failed", symbol |-> Absent],
                          [what |-> "close_failed", symbol |-> req[r].positions[1].symbol],
                          [what |-> "closed", symbol |-> req[r].positions[2].symbol]>>
        /\ Len(req[r].orders) = 2

\* C16, as stated: a Kill Switch activation that got as far as the
\* cancellation does not raise, whatever fails afterwards: it returns its log
\* and has emitted the one aggregate notification.
C16_AsStated ==
    \A r \in Slots :
        Kill(r) /\ Done(r) /\ "cancel_all_orders" \in req[r].calls
            => /\ req[r].resp = [code |-> 200, body |-> "KILL_SWITCH_EXECUTED"]
               /\ req[r].exc = "none" /\ req[r].notes = <<"error">>

\* a request to an admin endpoint
Admin(r) == req[r].kind \in AdminEndpoints

\* C17: a request to /status, /report, /kill or /resume whose admin secret is
\* absent or wrong goes no further than the authentication: it is answered
\* 401, it calls neither the venue nor the notifier, it never writes the gate,
\* and no step of it changes the gate.
C17_UnauthorizedAdminHasNoEffect ==
    /\ [](\A r \in Slots :
            Admin(r) /\ req[r].hdr # "right" =>
                /\ req[r].pc \in {"a_auth", "done"}
                /\ Done(r) => req[r].resp = [code |-> 401, body |-> "Unauthorized"]
                /\ NoVenue(r) /\ req[r].notes = <<>> /\ req[r].log = <<>>
                /\ ~Wrote(r))
    /\ [][\A r \in Slots :
            Admin(r) /\ req[r].hdr # "right" /\ req'[r] # req[r]
                => TRADING_ENABLED' = TRADING_ENABLED]_vars

\* C17 witness: while the gate is Disabled, a /resume with a wrong secret and
\* a /status with none have both been answered 401
C17_Witness ==
    \E r, s \in Slots :
        /\ ~TRADING_ENABLED
        /\ Resume(r) /\ req[r].hdr = "wrong" /\ req[r].resp.code = 401
        /\ req[s].kind = "status" /\ req[s].hdr = "absent" /\ req[s].resp.code = 401

\* C18, as stated: a signal answered 400 is one that lacked symbol or side,
\* so it was never handed to place_order and made no venue call; a signal
\* whose order execution raised, whatever the failure, is answered 500.
C18_AsStated ==
    \A r \in Slots :
        Webhook(r) /\ Done(r) =>
            /\ req[r].resp.code = 400 => req[r].placeCalls = 0 /\ NoVenue(r)
            /\ req[r].placeCalls = 1 /\ req[r].exc # "none" => req[r].resp.code = 500

\* C19, as stated: verifying a signature never raises: a webhook whose
\* signature was verified and is anything but the digest of the body (absent,
\* empty, mismatched, not ASCII) was told false, so it is answered 200 with
\* an empty body; and only a webhook whose signature is the digest gets past
\* the verification.
C19_AsStated ==
    \A r \in Slots :
        Webhook(r) /\ req[r].sigChecked =>
            /\ req[r].hdr # "good" => Done(r) /\ req[r].resp = Silent
            /\ req[r].body # NoBody \/ req[r].placeCalls > 0 => req[r].hdr = "good"

\* C20, as stated: in the step that produces the response of /kill, which
\* reports trading_status DISABLED, the gate is Disabled.
C20_AsStated ==
    [][\A r \in Slots :
          Kill(r) /\ req[r].pc = "k_notify" /\ req'[r].pc = "done"
              => req'[r].resp.body = "KILL_SWITCH_EXECUTED" /\ ~TRADING_ENABLED']_vars

\* the steps of place_order
InOrderExecution(r) ==
    req[r].pc \in {"po_attempt", "po_leverage", "po_ticker", "po_balance", "po_order"}

\* C21: a webhook reads the gate once, before anything else: whatever it
\* does afterwards it does having read Enabled, its reading never changes,
\* and no later step of it is answered 'ignored'; a signal that is about to
\* submit its order can do so and, when it steps, does so, whatever the gate
\* is by then.
C21_GateReadOnceAtStart ==
    /\ [](\A r \in Slots :
            Webhook(r) =>
                /\ req[r].pc # "w_gate" <=> req[r].gateRead # "unread"
                /\ InOrderExecution(r) \/ req[r].placeCalls > 0 \/ req[r].sigChecked
                     => req[r].gateRead = "enabled"
                /\ req[r].gateRead = "enabled" => req[r].resp # Ignored
                /\ req[r].pc = "po_order" => ENABLED PlaceOrderCreateOrder(r))
    /\ [][\A r \in Slots :
            Webhook(r) /\ InOrderExecution(r) /\ req'[r].pc # req[r].pc =>
                /\ req'[r].gateRead = req[r].gateRead
                /\ req'[r].resp # Ignored
                /\ req[r].pc = "po_order" =>
                     /\ "create_market_order" \in req'[r].calls
                     /\ Len(req'[r].orders) = Len(req[r].orders) + 1]_vars

\* C21 witness: the order of a signal that had read the gate Enabled was
\* accepted by the venue while the gate was Disabled, after the Kill Switch
\* had gone through the positions; the Kill Switch has returned since
C21_Witness ==
    \E r, s \in Slots :
        /\ Webhook(r) /\ req[r].gateRead = "enabled" /\ req[r].late
        /\ req[r].ret = "order" /\ req[r].resp = Ok
        /\ Kill(s) /\ Done(s) /\ req[s].resp.code = 200 /\ ~req[s].undone
        /\ ~TRADING_ENABLED

\* the numerator of the quantity sized from the whole free balance b
FullSize(b) == (b * TRADE_ALLOCATION_PERCENT) * settings.leverage

\* C22: nothing makes a signal wait between its balance read and its order:
\* a signal that holds a balance can always submit, its order is sized from
\* the balance it holds even when another order was submitted since, and the
\* step of one signal leaves what the others hold as it is.
C22_NoExclusionBetweenReadAndOrder ==
    /\ [](\A r \in Slots :
            Signal(r) /\ req[r].pc = "po_order" => ENABLED PlaceOrderCreateOrder(r))
    /\ [][\A r \in Slots :
            Signal(r) /\ req[r].pc = "po_order" /\ req'[r].pc # "po_order" =>
                /\ Len(req'[r].orders) = Len(req[r].orders) + 1
                /\ req'[r].orders[Len(req'[r].orders)].amount[1] = FullSize(req[r].balance[1])
                /\ \A s \in Slots \ {r} :
                     /\ req'[s].pc = req[s].pc /\ req'[s].orders = req[s].orders
                     /\ req'[s].balance = req[s].balance /\ req'[s].price = req[s].price]_vars

\* C22 witness: two signals for the same symbol read the free balance 1000
\* before either submitted; both orders were accepted, each sized from the
\* whole 1000, so their combined margin is twice 1000 * allocation
C22_Witness ==
    \E r, s \in Slots :
        /\ r # s /\ Webhook(r) /\ Webhook(s) /\ req[r].symbol = req[s].symbol
        /\ req[r].ret = "order" /\ req[s].ret = "order"
        /\ req[r].attempt = 1 /\ req[s].attempt = 1 /\ req[s].stale
        /\ req[r].orders[1].amount[1] = FullSize(1000)
        /\ req[s].orders[1].amount[1] = FullSize(1000)
        /\ req[r].orders[1].amount[1] + req[s].orders[1].amount[1]
             = 2 * 1000 * TRADE_ALLOCATION_PERCENT * settings.leverage

\* a timestamp more than 60 seconds older than the evaluation time
Stale(ts, now) == ts # <<>> /\ now - ts[1] > 60

\* C23, as stated: for a validly signed request read while the gate is Enabled
\* the intake checks run in the order parse -> heartbeat -> staleness ->
\* required fields and the first one that fires decides the answer: an
\* unparsable body is dropped silently, a heartbeat is answered 200
\* {"status": "ok"} even when its timestamp is stale, a stale payload is
\* dropped silently (200, empty body) even when it lacks symbol or side, only a
\* payload that is neither is answered 400 for a missing field, and a request
\* answered by a check has reached neither place_order nor the venue.
C23_AsStated ==
    \A r \in Slots :
        /\ Webhook(r) /\ req[r].gateRead = "enabled" /\ req[r].hdr = "good"
        /\ req[r].body.parse \in {"invalid_json", "object"}
        => LET b == req[r].body
               fired == Done(r) /\ req[r].placeCalls = 0 /\ NoVenue(r)
           IN  /\ b.parse = "invalid_json" => fired /\ req[r].resp = Silent
               /\ b.parse = "object" /\ b.dust = "true" => fired /\ req[r].resp = Ok
               /\ b.parse = "object" /\ b.dust # "true" /\ Stale(b.ts, req[r].evalTime)
                  /\ (b.symbol = Absent \/ b.side = Absent)
                    => fired /\ req[r].resp = Silent
               /\ b.parse = "object" /\ b.dust # "true" /\ ~Stale(b.ts, req[r].evalTime)
                  /\ (b.symbol = Absent \/ b.side = Absent)
                    => fired /\ req[r].resp = [code |-> 400, body |-> "Invalid payload"]

====
